---------------------------- MODULE Spec2Model ----------------------------
(***************************************************************************)
(* A model of the flash command line flashcard manager (src/src/main.rs):  *)
(* the sqlite tables, the command handlers init / add deck / add cards /   *)
(* quiz, the two-step keypress loop of a quiz session, and the clock.      *)
(*                                                                         *)
(* Text (command line words, file contents, deck names) is a sequence of   *)
(* one-character strings, so that split, trim and parse are computed.      *)
(* Dates are day numbers.  The clock `now` counts half days; the UTC date  *)
(* is now \div 2 and the local date is (now + utcOffset) \div 2.           *)
(***************************************************************************)
EXTENDS Integers, Sequences, FiniteSets, TLC

(* ------------------------------ bounds -------------------------------- *)
\* the explored runs add at most MaxSize decks, cards, grades and half days
MaxSize == 5
MaxSeedLevel == 6

(* ------------------------------- text --------------------------------- *)
kInit == <<"i", "n", "i", "t">>
kAdd == <<"a", "d", "d">>
kQuiz == <<"q", "u", "i", "z">>
kDeck == <<"d", "e", "c", "k">>
kCards == <<"c", "a", "r", "d", "s">>
kBogus == <<"r", "m">>
kProg == <<"f", "l", "a", "s", "h">>

Sep == <<"-", "-", "-", "-">>
Delim == <<"<", ">">>
Colon == <<":">>

IsPrefixAt(s, i, pat) ==
    /\ i + Len(pat) - 1 <= Len(s)
    /\ \A k \in 1..Len(pat) : s[i + k - 1] = pat[k]

RECURSIVE SplitFrom(_, _, _, _)
SplitFrom(s, pat, i, piece) ==
    IF i > Len(s) THEN <<piece>>
    ELSE IF IsPrefixAt(s, i, pat)
         THEN <<piece>> \o SplitFrom(s, pat, i + Len(pat), <<>>)
         ELSE SplitFrom(s, pat, i + 1, Append(piece, s[i]))

Split(s, pat) == SplitFrom(s, pat, 1, <<>>)

IsSpace(c) == c \in {" ", "\n", "\t", "\r"}

RECURSIVE TrimStart(_)
TrimStart(s) ==
    IF s # <<>> /\ IsSpace(Head(s)) THEN TrimStart(Tail(s)) ELSE s

RECURSIVE TrimEnd(_)
TrimEnd(s) ==
    IF s # <<>> /\ IsSpace(s[Len(s)])
    THEN TrimEnd(SubSeq(s, 1, Len(s) - 1)) ELSE s

Trim(s) == TrimEnd(TrimStart(s))

Digits == <<"0", "1", "2", "3", "4", "5", "6", "7", "8", "9">>
IsDigit(c) == \E d \in 1..Len(Digits) : Digits[d] = c
DigitVal(c) == (CHOOSE d \in 1..Len(Digits) : Digits[d] = c) - 1

RECURSIVE DigitsVal(_)
DigitsVal(s) ==
    IF s = <<>> THEN 0
    ELSE 10 * DigitsVal(SubSeq(s, 1, Len(s) - 1)) + DigitVal(s[Len(s)])

\* deck_name.parse::<i32>(): an optional sign, then one or more digits, in range.
ParseI32(s) ==
    LET signed == s # <<>> /\ s[1] \in {"+", "-"}
        body == IF signed THEN Tail(s) ELSE s
        bad == [ok |-> FALSE, val |-> 0]
    IN  IF body = <<>> \/ \E i \in 1..Len(body) : ~IsDigit(body[i]) THEN bad
        ELSE LET v == IF s[1] = "-" THEN 0 - DigitsVal(body) ELSE DigitsVal(body)
             IN  IF v > 2147483647 \/ v < (0 - 2147483647) - 1 THEN bad
                 ELSE [ok |-> TRUE, val |-> v]

(* ---------------------------- file system ----------------------------- *)
NameLine(n) == <<"n", "a", "m", "e", ":", " ">> \o n \o <<"\n">>
Card == <<"\n", "q">> \o Delim \o <<"r", "\n">>

pTwo == <<"t", "w", "o">>
pMixed == <<"m", "i", "x">>
pNum == <<"n", "u", "m">>
pGhost == <<"g", "h", "o">>
pNoColon == <<"b", "a", "d">>
pMissing == <<"n", "o">>

FileSystem ==
    (pTwo :> NameLine(<<"a">>) \o Sep \o Card \o Sep \o Card)
    @@ (pMixed :> NameLine(<<"a">>) \o Sep \o <<"q">> \o Sep
                  \o <<"q">> \o Delim \o <<"r">> \o Delim \o <<"s">> \o Sep
                  \o Card \o Sep)
    @@ (pNum :> NameLine(<<"2">>) \o Sep \o Card)
    @@ (pGhost :> NameLine(<<"z">>) \o Sep \o Card)
    @@ (pNoColon :> <<"a", "\n">> \o Sep \o Card)

\* read_to_string(path) followed by file.split("----"), per readable path
FileCards == [p \in DOMAIN FileSystem |-> Split(FileSystem[p], Sep)]

Paths == {pTwo, pMixed, pNum, pGhost, pNoColon, pMissing}
DeckNames == {<<"a">>, <<"2">>}
QuizArgs == {<<"a">>, <<"2">>, <<"1">>, <<"z">>}
Keys == {"Enter", "1", "2", "x"}

CommandLines ==
    {<<kProg>>, <<kProg, kBogus>>, <<kProg, kInit>>,
     <<kProg, kAdd>>, <<kProg, kAdd, kBogus>>,
     <<kProg, kAdd, kDeck>>, <<kProg, kAdd, kCards>>, <<kProg, kQuiz>>}
    \cup {<<kProg, kAdd, kDeck, n>> : n \in DeckNames}
    \cup {<<kProg, kAdd, kCards, p>> : p \in Paths}
    \cup {<<kProg, kQuiz, a>> : a \in QuizArgs}

(* ------------------------------- state -------------------------------- *)
VARIABLES
    tablesExist,    \* the three tables have been created
    decks,          \* decks table: row id -> name
    flashcards,     \* flashcards table: row id -> row
    flashcard_log,  \* flashcard_log table, in insertion order
    now,            \* the clock, in half days
    utcOffset,      \* local time minus UTC, in half days
    argv,           \* the command line of the process, <<>> when there is none
    pc,             \* "idle" (no process), "flip", "grade" (inside quiz),
                    \* "done" (main has returned or panicked)
    rows,           \* quiz: the shuffled rows not yet graded
    out,            \* lines printed by the process
    hist            \* history: the grades accepted, in order

vars == <<tablesExist, decks, flashcards, flashcard_log, now, utcOffset,
          argv, pc, rows, out, hist>>

db == <<tablesExist, decks, flashcards, flashcard_log>>

UtcDate(t) == t \div 2
LocalDate(t) == (t + utcOffset) \div 2

level_to_date(level) ==
    CASE level = 1 -> 1
      [] level = 2 -> 4
      [] level = 3 -> 10
      [] level = 4 -> 25
      [] level = 5 -> 50
      [] OTHER -> 1000


(* ----------------------------- persistence ---------------------------- *)
\* mutant: the outcome is not passed on
InsertLogAlwaysTrue(entry) ==
    Append(flashcard_log, [entry EXCEPT !.answer = TRUE])

insert_flashcard_log(entry) == Append(flashcard_log, entry)

update_flashcard_level(id, level, next) ==
    [flashcards EXCEPT ![id].level = level, ![id].next = next]

\* SELECT id FROM decks WHERE name = ?1, first row; an error when the table is
\* missing or no row matches.
get_deck_id_from_name(name) ==
    LET ids == {i \in 1..Len(decks) : decks[i] = name}
    IN  IF ~tablesExist \/ ids = {} THEN [ok |-> FALSE, val |-> 0]
        ELSE [ok |-> TRUE, val |-> CHOOSE i \in ids : \A j \in ids : i <= j]

\* mutant: any segment holding a "<>" is taken as a card
IsCardLoose(segment) == Len(Split(segment, Delim)) >= 2

IsCard(segment) == Len(Split(segment, Delim)) = 2

parse_cards(deck_id, segments, added_date) ==
    LET kept == SelectSeq(segments, IsCard)
    IN  [i \in 1..Len(kept) |->
            [deck_id |-> deck_id,
             front |-> Split(kept[i], Delim)[1],
             back |-> Split(kept[i], Delim)[2],
             added |-> added_date,
             next |-> added_date,
             level |-> 1]]

\* mutant: next < today
IsDueStrict(card, deck_id, today) == card.deck_id = deck_id /\ card.next < today

IsDue(card, deck_id, today) == card.deck_id = deck_id /\ card.next <= today

\* SELECT id, level, front, back FROM flashcards WHERE deck_id = ?1 and next <= ?2
QueryDue(deck_id, today) ==
    LET ids == [i \in 1..Len(flashcards) |-> i]
        hit(i) == IsDue(flashcards[i], deck_id, today)
        sel == SelectSeq(ids, hit)
    IN  [k \in 1..Len(sel) |-> [id |-> sel[k], level |-> flashcards[sel[k]].level]]

\* rows.shuffle(&mut rng): any order
Shuffles(s) ==
    {[k \in 1..Len(s) |-> s[p[k]]] : p \in Permutations(1..Len(s))}

\* mutant: the interval of the level before the grade
CorrectGradeStale(level, today) ==
    [level |-> level + 1, next |-> today + level_to_date(level)]

CorrectGrade(level, today) ==
    [level |-> level + 1, next |-> today + level_to_date(level + 1)]

\* mutant: no floor at level 1
IncorrectGradeNoFloor(level, today) ==
    [level |-> level - 1, next |-> today + level_to_date(level)]

IncorrectGrade(level, today) ==
    [level |-> IF level > 1 THEN level - 1 ELSE 1,
     next |-> today + level_to_date(level)]

(* ------------------------------- Init --------------------------------- *)
RECURSIVE SeedNext(_)
\* the due date of a card imported on day 0 and graded correct, each time on
\* its due date, up to `level`
SeedNext(level) ==
    IF level <= 1 THEN 0 ELSE SeedNext(level - 1) + level_to_date(level)

StartDay == SeedNext(MaxSeedLevel) + 1

\* what the run has added to the database, the log and the clock so far
Size == Len(decks) + Len(flashcards) + Len(hist) + (now - 2 * StartDay)

Fresh ==
    /\ tablesExist = FALSE
    /\ decks = <<>>
    /\ flashcards = <<>>
    /\ flashcard_log = <<>>

\* a database left by earlier runs: one deck, one card brought to `level`
Seeded(level) ==
    /\ tablesExist = TRUE
    /\ decks = << <<"a">> >>
    /\ flashcards = << [deck_id |-> 1, front |-> <<"q">>, back |-> <<"r">>,
                        added |-> 0, next |-> SeedNext(level), level |-> level] >>
    /\ flashcard_log = [i \in 1..(level - 1) |-> [question_id |-> 1, answer |-> TRUE]]

Clean ==
    /\ argv = <<>>
    /\ now = 2 * StartDay
    /\ utcOffset \in {-1, 0, 1}
    /\ pc = "idle"
    /\ rows = <<>>
    /\ out = <<>>
    /\ hist = <<>>

Init == Clean /\ Fresh

InitSeeded == Clean /\ \E level \in 1..MaxSeedLevel : Seeded(level)

(* ------------------------------ commands ------------------------------ *)
\* a process starts on the command line `args`
Enter(args) ==
    /\ pc = "idle"
    /\ argv' = args

Says(lines) ==
    /\ out' = lines
    /\ pc' = "done"
    /\ UNCHANGED <<tablesExist, decks, flashcards, flashcard_log, now, utcOffset,
                   rows, hist>>

NoCommand(args) ==
    /\ Enter(args)
    /\ Len(args) <= 1
    /\ Says(<<"Missing <command>">>)

UnknownCommand(args) ==
    /\ Enter(args)
    /\ Len(args) > 1
    /\ args[2] \notin {kInit, kAdd, kQuiz}
    /\ Says(<<"Unknown command">>)

init_db(args) ==
    /\ Enter(args)
    /\ Len(args) > 1
    /\ args[2] = kInit
    /\ tablesExist' = TRUE
    /\ out' = <<>>
    /\ pc' = "done"
    /\ UNCHANGED <<decks, flashcards, flashcard_log, now, utcOffset, rows, hist>>

AddNoSubcommand(args) ==
    /\ Enter(args)
    /\ Len(args) > 1
    /\ args[2] = kAdd
    /\ Len(args) < 3
    /\ Says(<<"Missing <subcommand>">>)

AddUnknown(args) ==
    /\ Enter(args)
    /\ Len(args) >= 3
    /\ args[2] = kAdd
    /\ args[3] \notin {kDeck, kCards}
    /\ Says(<<"Unknown add command">>)

AddDeck(args) ==
    /\ Enter(args)
    /\ Len(args) >= 3
    /\ args[2] = kAdd
    /\ args[3] = kDeck
    /\ IF Len(args) < 4 THEN Says(<<"Missing <deck_name>">>)
       ELSE IF ~tablesExist THEN Says(<<"Error adding deck">>)
       ELSE /\ Size < MaxSize
            /\ decks' = Append(decks, args[4])
            /\ out' = <<"Deck added">>
            /\ pc' = "done"
            /\ UNCHANGED <<tablesExist, flashcards, flashcard_log, now, utcOffset,
                           rows, hist>>

AddCards(args) ==
    /\ Enter(args)
    /\ Len(args) >= 3
    /\ args[2] = kAdd
    /\ args[3] = kCards
    /\ IF Len(args) < 4 THEN Says(<<"panic">>)
       ELSE IF args[4] \notin DOMAIN FileSystem THEN Says(<<"Error reading file">>)
       ELSE
         LET cards == FileCards[args[4]]
             name == Split(cards[1], Colon)
         IN  IF Len(name) < 2 THEN Says(<<"panic">>)
             ELSE
               LET deck == get_deck_id_from_name(Trim(name[2]))
                   new == parse_cards(deck.val, Tail(cards), UtcDate(now))
               IN  IF ~deck.ok THEN Says(<<"Error getting deck id">>)
                   ELSE /\ Size + Len(new) <= MaxSize
                        /\ flashcards' = flashcards \o new
                        /\ out' = [i \in 1..Len(new) |-> "Flashcard added"]
                        /\ pc' = "done"
                        /\ UNCHANGED <<tablesExist, decks, flashcard_log, now,
                                       utcOffset, rows, hist>>

Prompt == <<"front", "press enter to flip">>
Reveal == <<"back", "Press - O: 1, X: 2">>

Quiz(args) ==
    /\ Enter(args)
    /\ Len(args) > 1
    /\ args[2] = kQuiz
    /\ IF Len(args) < 3 THEN Says(<<"Missing <deck_name>">>)
       ELSE
         LET parsed == ParseI32(args[3])
             deck == IF parsed.ok THEN parsed ELSE get_deck_id_from_name(args[3])
             today == UtcDate(now)
         IN  IF ~deck.ok THEN Says(<<"Error getting deck id">>)
             ELSE IF ~tablesExist THEN Says(<<"panic">>)
             ELSE \E order \in Shuffles(QueryDue(deck.val, today)) :
                    /\ Size + Len(order) <= MaxSize
                    /\ rows' = order
                    /\ pc' = IF order = <<>> THEN "done" ELSE "flip"
                    /\ out' = IF order = <<>> THEN <<>> ELSE Prompt
                    /\ UNCHANGED <<tablesExist, decks, flashcards, flashcard_log,
                                   now, utcOffset, hist>>

Main(args) ==
    \/ NoCommand(args)
    \/ UnknownCommand(args)
    \/ init_db(args)
    \/ AddNoSubcommand(args)
    \/ AddUnknown(args)
    \/ AddDeck(args)
    \/ AddCards(args)
    \/ Quiz(args)

(* --------------------------- the quiz loop ---------------------------- *)
\* read() returns the next key event; the events pending before the loop
\* are dropped by clear_key_buffer, so any key may be the next one read.
\* mutant: any key flips the card
ReadFlipAnyKey(key) ==
    /\ pc = "flip"
    /\ pc' = "grade"
    /\ out' = out \o Reveal
    /\ UNCHANGED <<tablesExist, decks, flashcards, flashcard_log, now, utcOffset,
                   argv, rows, hist>>

ReadFlip(key) ==
    /\ pc = "flip"
    /\ IF key = "Enter"
       THEN /\ pc' = "grade"
            /\ out' = out \o Reveal
       ELSE UNCHANGED <<pc, out>>
    /\ UNCHANGED <<tablesExist, decks, flashcards, flashcard_log, now, utcOffset,
                   argv, rows, hist>>

Graded(correct) ==
    LET row == Head(rows)
        today == LocalDate(now)
        to == IF correct THEN CorrectGrade(row.level, today)
              ELSE IncorrectGrade(row.level, today)
    IN  /\ flashcards' = update_flashcard_level(row.id, to.level, to.next)
        /\ flashcard_log' =
               insert_flashcard_log([question_id |-> row.id, answer |-> correct])
        /\ hist' = Append(hist, [card |-> row.id, correct |-> correct, at |-> now])
        /\ rows' = Tail(rows)
        /\ pc' = IF Tail(rows) = <<>> THEN "done" ELSE "flip"
        /\ out' = IF Tail(rows) = <<>> THEN out ELSE out \o Prompt

ReadGrade(key) ==
    /\ pc = "grade"
    /\ IF key = "1" THEN Graded(TRUE)
       ELSE IF key = "2" THEN Graded(FALSE)
       ELSE UNCHANGED <<flashcards, flashcard_log, hist, rows, pc, out>>
    /\ UNCHANGED <<tablesExist, decks, now, utcOffset, argv>>

\* main has returned: the process is gone, the terminal is at the prompt again
Exit ==
    /\ pc = "done"
    /\ pc' = "idle"
    /\ argv' = <<>>
    /\ out' = <<>>
    /\ UNCHANGED <<tablesExist, decks, flashcards, flashcard_log, now, utcOffset,
                   rows, hist>>

(* ---------------------------- environment ----------------------------- *)
\* half a day passes, also in the middle of a session (not between a return
\* and the prompt, which takes no time)
Tick ==
    /\ pc # "done"
    /\ Size < MaxSize
    /\ now' = now + 1
    /\ UNCHANGED <<tablesExist, decks, flashcards, flashcard_log, utcOffset,
                   argv, pc, rows, out, hist>>

Next ==
    \/ \E args \in CommandLines :
          \/ NoCommand(args)
          \/ UnknownCommand(args)
          \/ init_db(args)
          \/ AddNoSubcommand(args)
          \/ AddUnknown(args)
          \/ AddDeck(args)
          \/ AddCards(args)
          \/ Quiz(args)
    \/ \E key \in Keys : ReadFlip(key)
    \/ \E key \in Keys : ReadGrade(key)
    \/ Exit
    \/ Tick

Spec == Init /\ [][Next]_vars

SpecSeeded == InitSeeded /\ [][Next]_vars

(* ------------------------------ claims ------------------------------- *)
QuizLine(a) == <<kProg, kQuiz, a>>
CardsLine(p) == <<kProg, kAdd, kCards, p>>
GradeStep(correct) == ReadGrade(IF correct THEN "1" ELSE "2")
Current == Head(rows).id

\* the interval table as the specification states it
Interval(level) ==
    IF level = 1 THEN 1 ELSE IF level = 2 THEN 4 ELSE IF level = 3 THEN 10
    ELSE IF level = 4 THEN 25 ELSE IF level = 5 THEN 50 ELSE 1000

\* C1: a '1' keypress on a revealed card whose stored level is L >= 1 stores
\* level L + 1 and next-due date = today + Interval(L + 1), for every L (no
\* upper clamp); today is the local calendar date at the keypress.
C1_CorrectGrade ==
    [][GradeStep(TRUE) =>
          LET L == flashcards[Current].level
          IN  /\ L >= 1
              /\ flashcards'[Current].level = L + 1
              /\ flashcards'[Current].next = LocalDate(now) + Interval(L + 1)]_vars

\* the last grade was a correct one from level MaxSeedLevel: the card is one
\* level higher, past the table, and due 1000 days after the grade
C1_Witness ==
    /\ hist # <<>>
    /\ LET h == hist[Len(hist)]
       IN  /\ h.correct
           /\ flashcards[h.card].level = MaxSeedLevel + 1
           /\ flashcards[h.card].next = LocalDate(h.at) + 1000

\* C2: a '2' keypress on a revealed card whose stored level is 3 stores level 2
\* and next-due date = today + 4.
C2_IncorrectAtThree ==
    [][(GradeStep(FALSE) /\ flashcards[Current].level = 3) =>
          /\ flashcards'[Current].level = 2
          /\ flashcards'[Current].next = LocalDate(now) + 4]_vars

\* C3: no stored level is ever below 1, and a '2' keypress at stored level L
\* stores max(L - 1, 1).
C3_LevelFloor ==
    /\ [](\A i \in 1..Len(flashcards) : flashcards[i].level >= 1)
    /\ [][GradeStep(FALSE) =>
             LET L == flashcards[Current].level
             IN  flashcards'[Current].level = IF L - 1 > 1 THEN L - 1 ELSE 1]_vars

\* a level 1 card was graded incorrect and is still at level 1
C3_Witness ==
    /\ flashcard_log = << [question_id |-> 1, answer |-> FALSE] >>
    /\ flashcards[1].level = 1

\* the number of "<>" in a segment, counted by position
CountDelim(segment) ==
    Cardinality({i \in 1..(Len(segment) - 1) :
                    segment[i] = "<" /\ segment[i + 1] = ">"})

\* the deck a readable file names: the text after "name:" in its header
NamedDeck(p) == Trim(Split(FileCards[p][1], Colon)[2])

NamesExistingDeck(p) ==
    /\ p \in DOMAIN FileSystem
    /\ Len(Split(FileCards[p][1], Colon)) >= 2
    /\ tablesExist
    /\ \E d \in 1..Len(decks) : decks[d] = NamedDeck(p)

\* C4: 'add cards' on a file naming an existing deck appends one flashcard row
\* per segment holding exactly one "<>" and none for the other segments; every
\* new row has the named deck's id, added = next = the import date (the UTC
\* calendar date the program stamps) and level 1; the old rows are untouched.
C4_Import ==
    [][\A p \in Paths :
          (AddCards(CardsLine(p)) /\ NamesExistingDeck(p)) =>
             LET segments == Tail(FileCards[p])
                 good == {i \in 1..Len(segments) : CountDelim(segments[i]) = 1}
                 old == Len(flashcards)
             IN  /\ Len(flashcards') = old + Cardinality(good)
                 /\ SubSeq(flashcards', 1, old) = flashcards
                 /\ \A i \in (old + 1)..Len(flashcards') :
                       /\ flashcards'[i].deck_id \in 1..Len(decks)
                       /\ decks[flashcards'[i].deck_id] = NamedDeck(p)
                       /\ flashcards'[i].added = UtcDate(now)
                       /\ flashcards'[i].next = UtcDate(now)
                       /\ flashcards'[i].level = 1]_vars

\* the file with one well-formed and three malformed segments was imported
C4_Witness ==
    /\ pc = "done"
    /\ argv = CardsLine(pMixed)
    /\ out = <<"Flashcard added">>
    /\ flashcards # <<>>
    /\ flashcards[Len(flashcards)].level = 1

Count(lines, line) == Cardinality({i \in 1..Len(lines) : lines[i] = line})

\* C5: each card is first AWAITING_FLIP then AWAITING_GRADE: the back is shown
\* only by an Enter read while awaiting the flip; no key read while awaiting
\* the flip, and no key other than '1'/'2' read while awaiting the grade,
\* changes the database; level and next-due change only by a '1' or '2' read
\* while awaiting the grade, which ends the card's turn.
C5_TwoSteps ==
    [][/\ pc' = "grade" /\ pc # "grade" => pc = "flip" /\ ReadFlip("Enter")
       /\ pc = "flip" => pc' \in {"flip", "grade"} /\ rows' = rows /\ db' = db
       /\ Count(out', "back") > Count(out, "back") =>
             /\ pc = "flip" /\ ReadFlip("Enter")
             /\ Count(out', "back") = Count(out, "back") + 1
       /\ \A key \in Keys \ {"Enter"} : ReadFlip(key) => UNCHANGED <<pc, out>>
       /\ \A key \in Keys \ {"1", "2"} :
             ReadGrade(key) => UNCHANGED <<db, pc, rows, out>>
       /\ (pc \in {"flip", "grade"} /\ db' # db) =>
             /\ GradeStep(TRUE) \/ GradeStep(FALSE)
             /\ \A i \in 1..Len(flashcards) : i # Current =>
                   flashcards'[i] = flashcards[i]
       /\ (GradeStep(TRUE) \/ GradeStep(FALSE)) =>
             /\ rows' = Tail(rows)
             /\ pc' = IF rows' = <<>> THEN "done" ELSE "flip"]_vars

\* the first card of a two-card session has been graded and the second one is
\* awaiting its flip
C5_Witness ==
    /\ pc = "flip"
    /\ Len(rows) = 1
    /\ hist # <<>>
    /\ hist[Len(hist)].card # Current
    /\ Count(out, "back") = 1
    /\ Count(out, "front") = 2

\* C6: the log only ever grows, by one entry per accepted grade, holding the
\* graded card's id and TRUE for '1', FALSE for '2'; so the log is the ordered
\* history of the grades given.
C6_LogAppendOnly ==
    /\ [][\/ flashcard_log' = flashcard_log
          \/ \E c \in BOOLEAN :
                /\ GradeStep(c)
                /\ flashcard_log' =
                      Append(flashcard_log, [question_id |-> Current, answer |-> c])]_vars
    /\ [][(GradeStep(TRUE) \/ GradeStep(FALSE)) =>
             Len(flashcard_log') = Len(flashcard_log) + 1]_vars
    /\ [](flashcard_log = [i \in 1..Len(hist) |->
                             [question_id |-> hist[i].card, answer |-> hist[i].correct]])

\* two grades, one correct and one incorrect, are in the log
C6_Witness ==
    /\ Len(flashcard_log) = 2
    /\ flashcard_log[1].answer # flashcard_log[2].answer

\* the deck a quiz argument stands for: an id when it reads as an integer, else
\* the first deck of that name
Target(a) ==
    IF ParseI32(a).ok THEN ParseI32(a).val
    ELSE CHOOSE d \in 1..Len(decks) :
            decks[d] = a /\ \A e \in 1..(d - 1) : decks[e] # a

Resolves(a) == ParseI32(a).ok \/ \E d \in 1..Len(decks) : decks[d] = a

DueSet(deck_id, today) ==
    {i \in 1..Len(flashcards) :
        flashcards[i].deck_id = deck_id /\ flashcards[i].next <= today}

\* C7: the rows of a quiz session are exactly the cards of the target deck
\* whose next-due date is on or before today (the UTC date of the query), each
\* once; the session presents them one after the other, and no other card is
\* ever changed.
C7_DueCards ==
    /\ [][\A a \in QuizArgs :
             (Quiz(QuizLine(a)) /\ tablesExist /\ Resolves(a)) =>
                /\ {rows'[k].id : k \in 1..Len(rows')} = DueSet(Target(a), UtcDate(now))
                /\ Len(rows') = Cardinality(DueSet(Target(a), UtcDate(now)))
                /\ \A k \in 1..Len(rows') :
                      rows'[k].level = flashcards[rows'[k].id].level]_vars
    /\ [][(pc \in {"flip", "grade"}) => (rows' = rows \/ rows' = Tail(rows))]_vars
    /\ [][\A i \in 1..Len(flashcards) :
             flashcards'[i] # flashcards[i] =>
                pc = "grade" /\ i = Current]_vars
    /\ [](pc \in {"flip", "grade"} <=> rows # <<>>)

\* a session by deck name is under way while the same deck holds a card that is
\* not due and so is not among the rows
C7_Witness ==
    /\ pc = "flip"
    /\ argv = QuizLine(<<"a">>)
    /\ \E i \in 1..Len(flashcards) :
          /\ flashcards[i].deck_id = flashcards[Current].deck_id
          /\ flashcards[i].next > UtcDate(now)
          /\ \A k \in 1..Len(rows) : rows[k].id # i

Underspecified ==
    {<<kProg>>, <<kProg, kBogus>>, <<kProg, kAdd>>, <<kProg, kAdd, kDeck>>,
     <<kProg, kAdd, kCards>>, <<kProg, kAdd, kBogus>>, <<kProg, kQuiz>>}

\* C8: every unknown or underspecified command line prints a message and
\* returns normally, without a panic, and leaves the database as it was.
C8_Underspecified ==
    [][\A args \in Underspecified :
          Main(args) =>
             /\ db' = db
             /\ pc' = "done"
             /\ Len(out') = 1
             /\ out' # <<"panic">>]_vars

NoDeckFor(a) ==
    /\ \A d \in 1..Len(decks) : decks[d] # a
    /\ ~(ParseI32(a).ok /\ ParseI32(a).val \in 1..Len(decks))

NamesMissingDeck(p) ==
    /\ p \in DOMAIN FileSystem
    /\ Len(Split(FileCards[p][1], Colon)) >= 2
    /\ \A d \in 1..Len(decks) : decks[d] # NamedDeck(p)

ImportErrors ==
    \A p \in Paths :
        /\ (AddCards(CardsLine(p)) /\ p \notin DOMAIN FileSystem) =>
              out' = <<"Error reading file">> /\ db' = db /\ pc' = "done"
        /\ (AddCards(CardsLine(p)) /\ NamesMissingDeck(p)) =>
              out' = <<"Error getting deck id">> /\ db' = db /\ pc' = "done"

\* C9: on an initialised database, an unreadable file, a file naming a missing
\* deck and a quiz of a deck that does not exist (no deck of that name, none of
\* that id) each print an error and leave the flashcards and the log as they
\* were.
C9_ErrorsReported ==
    [][/\ ImportErrors
       /\ \A a \in QuizArgs :
             (Quiz(QuizLine(a)) /\ tablesExist /\ NoDeckFor(a)) =>
                out' = <<"Error getting deck id">> /\ db' = db /\ pc' = "done"]_vars

\* C10: grading puts the card's next-due date after today, so no card is graded
\* twice on one day (stated for grades that share both the UTC and the local
\* calendar date).
C10_OncePerDay ==
    \A i, j \in 1..Len(hist) :
        (i < j /\ hist[i].card = hist[j].card) =>
           \/ UtcDate(hist[i].at) # UtcDate(hist[j].at)
           \/ LocalDate(hist[i].at) # LocalDate(hist[j].at)

=============================================================================
